---- MODULE Spec2Model ----
(***************************************************************************)
(* Model of scripts/retrieve_databundle_light.py (PyPSA-Earth): the load   *)
(* of the catalog (load_databundle_config), the selection of the data      *)
(* bundles to download (get_best_bundles, get_best_bundles_by_category,    *)
(* _check_disabled_by_opt) and the download loop of the __main__ block.    *)
(*                                                                         *)
(* A bundle configuration (a Python dict) is a TLA+ function whose DOMAIN  *)
(* is the set of keys present; the catalog config_bundles is a function    *)
(* from bundle names to such dicts, and bundle_keys is its key (insertion) *)
(* order. Bundle names are the numbers 1..MaxBundles, whose numeric order  *)
(* stands for the lexicographic order of the names. Countries are the      *)
(* numbers 1..MaxCountries.                                                *)
(***************************************************************************)
EXTENDS Integers, Sequences, FiniteSets, TLC

\* ------------------------------------------------------------------ bounds
MaxBundles == 3
MaxCountries == 2
MaxSuffixes == 2

Names == 1..MaxBundles
Countries == 1..MaxCountries
Categories == {"common", "data"}

VARIABLES
    config_bundles,       \* catalog: bundle name -> bundle dict
    bundle_keys,          \* key order of the catalog dict
    countries,            \* requested countries
    tutorial,             \* requested tutorial flag
    config_enable,        \* the "enable" configuration dict
    pc,                   \* position in the program
    categories,           \* list(set(categories)) of get_best_bundles
    cat_idx,              \* position of the loop over categories
    dict_sort,            \* candidates of the category, sorted by n_matched
    sort_idx,             \* position of the loop over dict_sort
    remaining_countries,  \* countries not yet matched in the category
    returned_bundles,     \* selection of the category
    bundles_to_download,  \* result of get_best_bundles
    b_idx,                \* position of the loop over bundles_to_download
    host_idx,             \* position of the loop over the hosts of a bundle
    downloaded_bundle,    \* the flag of the download loop
    attempts,             \* the calls of download functions made so far
    disk,                 \* the downloaded archive files present on disk
    log_error,            \* bundles of "Bundle ... cannot be downloaded"
    merge_calls,          \* calls of merge_hydrobasins_shape
    log_loaded,           \* the final "successfully loaded" message, if any
    config_type,          \* type of the argument of load_databundle_config
    log_config_error      \* "Impossible to load ..." was logged

selvars == <<config_bundles, bundle_keys, countries, tutorial, config_enable,
             pc, categories, cat_idx, dict_sort, sort_idx,
             remaining_countries, returned_bundles, bundles_to_download>>

selvars_but_pc == <<config_bundles, bundle_keys, countries, tutorial,
                    config_enable, categories, cat_idx, dict_sort, sort_idx,
                    remaining_countries, returned_bundles, bundles_to_download>>

mainvars == <<b_idx, host_idx, downloaded_bundle, attempts, disk, log_error,
              merge_calls, log_loaded>>

loadvars == <<config_type, log_config_error>>

\* ------------------------------------------------------- generic helpers
Range(s) == {s[i] : i \in DOMAIN s}

\* every ordering of a finite set, as sequences without repetition
Orderings(S) ==
    {s \in [1..Cardinality(S) -> S] : \A i, j \in DOMAIN s : i # j => s[i] # s[j]}

RECURSIVE Flatten(_)
Flatten(ss) == IF ss = <<>> THEN <<>> ELSE Head(ss) \o Flatten(Tail(ss))

\* dict.get(key, default)
Get(d, key, default) == IF key \in DOMAIN d THEN d[key] ELSE default

\* d[key] = val on a dict (the key is added when absent)
Put(d, key, val) == (key :> val) @@ d

\* ------------------------------------------------- _check_disabled_by_opt
\* A disable_by_opt dict is the sequence of its items [opt, outs] in key
\* order. A value outs is [kind |-> "list", items |-> <<...>>] for a YAML list
\* and [kind |-> "str", items |-> <<characters>>] for a plain string: Python's
\* "for out in tot_outs" walks the elements of a list and the characters of a
\* string.
RECURSIVE MergeUnique(_, _)
MergeUnique(all_disabled, outs) ==
    IF outs = <<>> THEN all_disabled
    ELSE MergeUnique(IF Head(outs) \in Range(all_disabled) THEN all_disabled
                     ELSE Append(all_disabled, Head(outs)),
                     Tail(outs))

RECURSIVE MergeAll(_, _)
MergeAll(all_disabled, disabled_objs) ==
    IF disabled_objs = <<>> THEN all_disabled
    ELSE MergeAll(MergeUnique(all_disabled, Head(disabled_objs).items),
                  Tail(disabled_objs))

\* the list comprehension of lines 511-515: the values of the active options
DisabledObjs(disabled_config, enable) ==
    LET active == SelectSeq(disabled_config,
                            LAMBDA it : Get(enable, it.opt, FALSE))
    IN  [i \in DOMAIN active |-> active[i].outs]

\* faulty variant: the outputs of every option are merged, active or not
check_disabled_by_opt_IgnoreEnable(config_bundle, enable) ==
    IF "disable_by_opt" \in DOMAIN config_bundle
    THEN LET disabled_config == config_bundle.disable_by_opt
             all_disabled ==
                 MergeAll(<<>>, [i \in DOMAIN disabled_config |->
                                    disabled_config[i].outs])
         IN  IF "all" \in Range(all_disabled) THEN <<"all">>
             ELSE IF "output" \in DOMAIN enable THEN all_disabled
             ELSE <<>>
    ELSE <<>>

\* faulty variant: only the outputs of the first active option are looked at
check_disabled_by_opt_FirstOnly(config_bundle, enable) ==
    IF "disable_by_opt" \in DOMAIN config_bundle
    THEN LET disabled_objs == DisabledObjs(config_bundle.disable_by_opt, enable)
             all_disabled ==
                 MergeAll(<<>>, SubSeq(disabled_objs, 1,
                                       IF disabled_objs = <<>> THEN 0 ELSE 1))
         IN  IF "all" \in Range(all_disabled) THEN <<"all">>
             ELSE IF "output" \in DOMAIN enable THEN all_disabled
             ELSE <<>>
    ELSE <<>>

\* _check_disabled_by_opt: <<"all">> when the bundle is completely disabled.
\* list(set(all_disabled)) has an unspecified order; it holds the elements of
\* all_disabled, none of which is "all" in that branch.
check_disabled_by_opt(config_bundle, enable) ==
    IF "disable_by_opt" \in DOMAIN config_bundle
    THEN LET all_disabled ==
                 MergeAll(<<>>, DisabledObjs(config_bundle.disable_by_opt, enable))
         IN  IF "all" \in Range(all_disabled) THEN <<"all">>
             ELSE IF "output" \in DOMAIN enable THEN all_disabled
             ELSE <<>>
    ELSE <<>>

\* ------------------------------------------- get_best_bundles_by_category
\* faulty variant: the tutorial flag of the bundle is not compared
IsCandidate_AnyTutorial(bname, category, cfg, tut, enable) ==
    /\ cfg[bname].category = category
    /\ check_disabled_by_opt(cfg[bname], enable) # <<"all">>

\* the condition of the dict comprehension of lines 568-574
IsCandidate(bname, category, cfg, tut, enable) ==
    /\ cfg[bname].category = category
    /\ Get(cfg[bname], "tutorial", FALSE) = tut
    /\ check_disabled_by_opt(cfg[bname], enable) # <<"all">>

\* the keys of dict_n_matched, in the key order of config_bundles
DictNMatched(category, cfg, keys, tut, enable) ==
    SelectSeq(keys, LAMBDA bname : IsCandidate(bname, category, cfg, tut, enable))

\* faulty variant: the bundles matching more countries come first
SortKeyBefore_Descending(n_new, n_old) == n_new > n_old

\* faulty variant: a new item also goes before the items of the same key
SortKeyBefore_TiesFirst(n_new, n_old) == n_new <= n_old

\* sorted(..., key=lambda d: d[1]): a new item goes before an item already
\* placed when its key is strictly smaller
SortKeyBefore(n_new, n_old) == n_new < n_old

\* one insertion of the stable sort: bname goes after every item it does not
\* precede
RECURSIVE InsertSorted(_, _, _)
InsertSorted(sorted, bname, cfg) ==
    IF sorted = <<>> THEN <<bname>>
    ELSE IF SortKeyBefore(cfg[bname].n_matched, cfg[Head(sorted)].n_matched)
         THEN <<bname>> \o sorted
         ELSE <<Head(sorted)>> \o InsertSorted(Tail(sorted), bname, cfg)

RECURSIVE SortItems(_, _, _)
SortItems(sorted, items, cfg) ==
    IF items = <<>> THEN sorted
    ELSE SortItems(InsertSorted(sorted, Head(items), cfg), Tail(items), cfg)

\* dict_sort of line 582 (the bundle names of its items)
DictSort(category, cfg, keys, tut, enable) ==
    SortItems(<<>>, DictNMatched(category, cfg, keys, tut, enable), cfg)

\* faulty variant: the countries of an appended bundle are not removed from the
\* remaining ones
LoopBody_KeepRemaining(st, bname, cfg) ==
    LET intersect == cfg[bname].countries \cap st.remaining
    IN  IF intersect # {}
        THEN [remaining |-> st.remaining,
              returned  |-> Append(st.returned, bname)]
        ELSE st

\* faulty variant: the bundle is appended only when it matches every remaining
\* country
LoopBody_NeedsAll(st, bname, cfg) ==
    LET intersect == cfg[bname].countries \cap st.remaining
    IN  IF intersect # {} /\ intersect = st.remaining
        THEN [remaining |-> st.remaining \ intersect,
              returned  |-> Append(st.returned, bname)]
        ELSE st

\* faulty variant: the bundle is appended whether or not it matches a remaining
\* country
LoopBody_AlwaysAppend(st, bname, cfg) ==
    LET intersect == cfg[bname].countries \cap st.remaining
    IN  [remaining |-> st.remaining \ intersect,
         returned  |-> Append(st.returned, bname)]

\* the body of the loop of lines 587-599 on the pair (remaining_countries,
\* returned_bundles)
LoopBody(st, bname, cfg) ==
    LET intersect == cfg[bname].countries \cap st.remaining
    IN  IF intersect # {}
        THEN [remaining |-> st.remaining \ intersect,
              returned  |-> Append(st.returned, bname)]
        ELSE st

RECURSIVE LoopFrom(_, _, _)
LoopFrom(st, sorted, cfg) ==
    IF sorted = <<>> THEN st
    ELSE LoopFrom(LoopBody(st, Head(sorted), cfg), Tail(sorted), cfg)

\* get_best_bundles_by_category as a function of its arguments
get_best_bundles_by_category(country_list, category, cfg, keys, tut, enable) ==
    LoopFrom([remaining |-> country_list, returned |-> <<>>],
             DictSort(category, cfg, keys, tut, enable), cfg).returned

\* -------------------------------------------------------- get_best_bundles
\* faulty variant: the count is added to the n_matched that the bundle has
Annotate_Accumulate(cfg, country_list) ==
    [bname \in DOMAIN cfg |->
        LET matched == {c \in cfg[bname].countries : c \in country_list}
        IN  Put(Put(cfg[bname], "matched_countries", matched),
                "n_matched", Get(cfg[bname], "n_matched", 0) + Cardinality(matched))]

\* lines 643-649: matched_countries and n_matched of every bundle. The
\* countries of a bundle come out of create_country_list without duplicates,
\* so they are kept as a set and n_matched is the size of the matched set.
Annotate(cfg, country_list) ==
    [bname \in DOMAIN cfg |->
        LET matched == {c \in cfg[bname].countries : c \in country_list}
        IN  Put(Put(cfg[bname], "matched_countries", matched),
                "n_matched", Cardinality(matched))]

\* the set of line 640
CategorySet(cfg) == {cfg[conf].category : conf \in DOMAIN cfg}

\* the loop of lines 654-667 for a given order of the categories
BundlesForOrder(cats, country_list, cfg, keys, tut, enable) ==
    Flatten([i \in DOMAIN cats |->
        get_best_bundles_by_category(country_list, cats[i], cfg, keys, tut, enable)])

\* ------------------------------------------------------------ the inputs
\* The urls dict of a bundle is the sequence of its items [host, url] in key
\* order. The url of a source is "ok", "malformed" (a Google Drive link
\* without "/view") or "popped" (the post dict after its "url" key was
\* popped); the value of the "suffixes" key is the list of region suffixes.
Url(host) == [host |-> host, url |-> "ok"]

Bundle(cs, category, urls) ==
    [countries |-> cs, category |-> category, urls |-> urls]

ListOf(items) == [kind |-> "list", items |-> items]
StrAll == [kind |-> "str", items |-> <<"a", "l", "l">>]

\* disable_by_opt dicts of a catalog
DisableChoices ==
    { <<[opt |-> "build_cutout", outs |-> ListOf(<<"all">>)]>>,
      <<[opt |-> "build_cutout", outs |-> StrAll]>>,
      <<[opt |-> "build_natura_raster", outs |-> ListOf(<<"natura.tiff">>)],
        [opt |-> "build_cutout", outs |-> ListOf(<<"all">>)]>>,
      <<[opt |-> "build_natura_raster", outs |-> ListOf(<<"natura.tiff">>)]>> }

\* enable configurations
EnableChoices ==
    { [build_cutout |-> TRUE],
      [build_cutout |-> FALSE, build_natura_raster |-> TRUE],
      [build_cutout |-> TRUE, build_natura_raster |-> TRUE, output |-> TRUE] }

\* catalogs that differ in what the bundles cover: every bundle has some
\* countries and a category, no tutorial key and no disable_by_opt; the
\* first bundle is of category "common" (the two categories are
\* interchangeable)
CoverBundles ==
    {Bundle(cs, cat, <<Url("zenodo")>>) :
        cs \in (SUBSET Countries) \ {{}}, cat \in Categories}

\* catalogs that differ in what gates the bundles: tutorial and disable_by_opt
GateBundles ==
    {Bundle(Countries, "common", <<Url("zenodo")>>)}
    \cup {Put(Bundle(Countries, "common", <<Url("zenodo")>>), "tutorial", t) :
            t \in BOOLEAN}
    \cup {Put(Put(Bundle(Countries, cat, <<Url("zenodo")>>), "tutorial", FALSE),
              "disable_by_opt", d) : d \in DisableChoices, cat \in {"data"}}
    \cup {Put(Bundle({1}, "common", <<Url("zenodo")>>), "disable_by_opt", d) :
            d \in {d \in DisableChoices : Len(d) = 2}}

\* the requested country lists: none, one country, all of them
CountryLists == {{}, {1}, Countries}

\* the key orders of the catalog: by name, and by name backwards
KeyOrders == { [i \in Names |-> i], [i \in Names |-> MaxBundles + 1 - i] }

\* the variables of the calls that have not begun
InitLocals ==
    /\ categories = <<>>
    /\ cat_idx = 1
    /\ dict_sort = <<>>
    /\ sort_idx = 1
    /\ remaining_countries = {}
    /\ returned_bundles = <<>>
    /\ bundles_to_download = <<>>
    /\ b_idx = 1
    /\ host_idx = 1
    /\ downloaded_bundle = FALSE
    /\ attempts = <<>>
    /\ disk = {}
    /\ log_error = <<>>
    /\ merge_calls = 0
    /\ log_loaded = <<>>

\* load_databundle_config has returned the catalog of a dict
InitSelection ==
    /\ pc = "get_best_bundles"
    /\ config_type = "dict"
    /\ log_config_error = FALSE
    /\ InitLocals

InitCover ==
    /\ config_bundles \in [Names -> CoverBundles]
    /\ config_bundles[1].category = "common"
    /\ bundle_keys \in KeyOrders
    /\ countries \in CountryLists
    /\ tutorial = FALSE
    /\ config_enable = <<>>

InitGate ==
    /\ config_bundles \in [Names -> GateBundles]
    /\ bundle_keys = [i \in Names |-> i]
    /\ countries \in CountryLists \ {{}}
    /\ tutorial \in BOOLEAN
    /\ config_enable \in EnableChoices

Init == (InitCover \/ InitGate) /\ InitSelection

\* the calls of get_best_bundles with an empty list of countries, for the
\* catalogs that differ in what gates the bundles
InitEmpty ==
    /\ config_bundles \in [Names -> GateBundles]
    /\ bundle_keys = [i \in Names |-> i]
    /\ countries = {}
    /\ tutorial \in BOOLEAN
    /\ config_enable \in EnableChoices
    /\ InitSelection

\* ------------------------------------------------------------ the actions
\* get_best_bundles, lines 638-652: the categories in the iteration order of a
\* set of strings, which the language leaves open (it changes with the hash
\* seed of the process), and the annotation of every bundle
GetBestBundlesBegin ==
    /\ pc = "get_best_bundles"
    /\ categories' \in Orderings(CategorySet(config_bundles))
    /\ config_bundles' = Annotate(config_bundles, countries)
    /\ cat_idx' = 1
    /\ bundles_to_download' = <<>>
    /\ pc' = "categories"
    /\ UNCHANGED <<bundle_keys, countries, tutorial, config_enable, dict_sort,
                   sort_idx, remaining_countries, returned_bundles>>
    /\ UNCHANGED mainvars
    /\ UNCHANGED loadvars

\* faulty variant: the countries matched by the categories before are not
\* asked of the next category
CategoryBegin_SharedRemaining ==
    /\ pc = "categories"
    /\ cat_idx <= Len(categories)
    /\ dict_sort' = DictSort(categories[cat_idx], config_bundles, bundle_keys,
                             tutorial, config_enable)
    /\ sort_idx' = 1
    /\ remaining_countries' = IF cat_idx = 1 THEN countries
                              ELSE remaining_countries
    /\ returned_bundles' = <<>>
    /\ pc' = "candidates"
    /\ UNCHANGED <<config_bundles, bundle_keys, countries, tutorial,
                   config_enable, categories, cat_idx, bundles_to_download>>
    /\ UNCHANGED mainvars
    /\ UNCHANGED loadvars

\* get_best_bundles_by_category, lines 568-585: the call for the next category
CategoryBegin ==
    /\ pc = "categories"
    /\ cat_idx <= Len(categories)
    /\ dict_sort' = DictSort(categories[cat_idx], config_bundles, bundle_keys,
                             tutorial, config_enable)
    /\ sort_idx' = 1
    /\ remaining_countries' = countries
    /\ returned_bundles' = <<>>
    /\ pc' = "candidates"
    /\ UNCHANGED <<config_bundles, bundle_keys, countries, tutorial,
                   config_enable, categories, cat_idx, bundles_to_download>>
    /\ UNCHANGED mainvars
    /\ UNCHANGED loadvars

\* faulty variant: the loop ends at the first bundle that matches nothing
CandidateStep_Break ==
    /\ pc = "candidates"
    /\ sort_idx <= Len(dict_sort)
    /\ LET st == LoopBody([remaining |-> remaining_countries,
                           returned |-> returned_bundles],
                          dict_sort[sort_idx], config_bundles)
       IN  /\ remaining_countries' = st.remaining
           /\ returned_bundles' = st.returned
           /\ sort_idx' = IF st.returned = returned_bundles
                          THEN Len(dict_sort) + 1 ELSE sort_idx + 1
    /\ UNCHANGED <<config_bundles, bundle_keys, countries, tutorial,
                   config_enable, pc, categories, cat_idx, dict_sort,
                   bundles_to_download>>
    /\ UNCHANGED mainvars
    /\ UNCHANGED loadvars

\* one iteration of the loop of lines 587-599
CandidateStep ==
    /\ pc = "candidates"
    /\ sort_idx <= Len(dict_sort)
    /\ LET st == LoopBody([remaining |-> remaining_countries,
                           returned |-> returned_bundles],
                          dict_sort[sort_idx], config_bundles)
       IN  /\ remaining_countries' = st.remaining
           /\ returned_bundles' = st.returned
    /\ sort_idx' = sort_idx + 1
    /\ UNCHANGED <<config_bundles, bundle_keys, countries, tutorial,
                   config_enable, pc, categories, cat_idx, dict_sort,
                   bundles_to_download>>
    /\ UNCHANGED mainvars
    /\ UNCHANGED loadvars

\* line 601 and lines 659-667: the category's selection is returned and
\* appended to the result
CategoryReturn ==
    /\ pc = "candidates"
    /\ sort_idx > Len(dict_sort)
    /\ bundles_to_download' = bundles_to_download \o returned_bundles
    /\ cat_idx' = cat_idx + 1
    /\ pc' = "categories"
    /\ UNCHANGED <<config_bundles, bundle_keys, countries, tutorial,
                   config_enable, categories, dict_sort, sort_idx,
                   remaining_countries, returned_bundles>>
    /\ UNCHANGED mainvars
    /\ UNCHANGED loadvars

\* line 669
GetBestBundlesReturn ==
    /\ pc = "categories"
    /\ cat_idx > Len(categories)
    /\ pc' = "selected"
    /\ UNCHANGED <<config_bundles, bundle_keys, countries, tutorial,
                   config_enable, categories, cat_idx, dict_sort, sort_idx,
                   remaining_countries, returned_bundles, bundles_to_download>>
    /\ UNCHANGED mainvars
    /\ UNCHANGED loadvars

Next ==
    \/ GetBestBundlesBegin
    \/ CategoryBegin
    \/ CandidateStep
    \/ CategoryReturn
    \/ GetBestBundlesReturn

vars == <<selvars, mainvars, loadvars>>

\* datafiles_retrivedatabundle, from the catalog that load_databundle_config
\* returned for a dict: the bundles are selected
Spec == Init /\ [][Next]_vars

\* datafiles_retrivedatabundle for a configuration that asks for no country
SpecEmpty == InitEmpty /\ [][Next]_vars

\* ------------------------------------------------ load_databundle_config
\* create_country_list of _helpers.py (iso_coding=False): the tokens of the
\* list are country codes and names of regions; a region is replaced by its
\* countries and duplicates are removed (the result is list(set(...)), whose
\* order is unspecified and is not kept here). The token 0 is a region that
\* holds every country.
create_country_list(raw) ==
    UNION {IF raw[i] = 0 THEN Countries ELSE {raw[i]} : i \in DOMAIN raw}

\* lines 108-113: the yaml file is read for a path (open raises when the
\* file cannot be read); an argument that is neither a str nor a dict is
\* logged and the function goes on
LoadConfigOpen ==
    /\ pc = "load"
    /\ \E readable \in BOOLEAN :
         pc' = IF config_type = "str" /\ ~readable THEN "crashed"
               ELSE "load_loop"
    /\ log_config_error' = (config_type \notin {"dict", "str"})
    /\ UNCHANGED <<config_type, selvars_but_pc, mainvars>>

\* lines 115-118: the loop over the bundles of the catalog; iterating None
\* raises TypeError, iterating an empty list does nothing
LoadConfigLoop ==
    /\ pc = "load_loop"
    /\ IF config_type = "NoneType"
       THEN /\ pc' = "crashed"
            /\ UNCHANGED config_bundles
       ELSE /\ config_bundles' =
                   [bundle_name \in DOMAIN config_bundles |->
                       Put(config_bundles[bundle_name], "countries",
                           create_country_list(config_bundles[bundle_name].countries))]
            /\ pc' = "loaded"
    /\ UNCHANGED <<bundle_keys, countries, tutorial, config_enable, categories,
                   cat_idx, dict_sort, sort_idx, remaining_countries,
                   returned_bundles, bundles_to_download>>
    /\ UNCHANGED <<mainvars, loadvars>>

\* line 120 and lines 695-698: the catalog is returned and get_best_bundles
\* is called with it
LoadConfigReturn ==
    /\ pc = "loaded"
    /\ pc' = "get_best_bundles"
    /\ UNCHANGED <<selvars_but_pc, mainvars, loadvars>>

\* the "countries" lists as a catalog file writes them: one country, a
\* country twice, a region, a country between two mentions of another
RawCountryLists ==
    { <<1>>, <<MaxCountries, MaxCountries>>, <<0>>,
      <<MaxCountries, 1, MaxCountries>> }

RawBundles ==
    {Bundle(raw, cat, <<Url("zenodo")>>) :
        raw \in RawCountryLists, cat \in Categories}

\* the arguments of load_databundle_config: a dict, the path of a yaml file
\* (config_bundles is then what the file holds), None and the empty list
InitLoad ==
    /\ config_type \in {"dict", "str", "NoneType", "list"}
    /\ IF config_type \in {"dict", "str"}
       THEN /\ config_bundles \in [Names -> RawBundles]
            /\ bundle_keys = [i \in Names |-> i]
       ELSE /\ config_bundles = <<>>
            /\ bundle_keys = <<>>
    /\ countries \in CountryLists
    /\ tutorial = FALSE
    /\ config_enable = <<>>
    /\ pc = "load"
    /\ log_config_error = FALSE
    /\ InitLocals

NextLoad ==
    \/ LoadConfigOpen
    \/ LoadConfigLoop
    \/ LoadConfigReturn
    \/ Next

\* datafiles_retrivedatabundle from its beginning: the catalog is loaded
\* and the bundles are selected
SpecLoad == InitLoad /\ [][NextLoad]_vars

\* ------------------------------------------------- the download functions
\* The files a download leaves on disk are pairs <<file, region>>; region is
\* 0 but for the archive of a hydrobasins region.
Faults == {"none", "retrieve", "extract"}

\* host in config["urls"], and config["urls"][host]
HasUrl(bundle, host) == \E i \in DOMAIN bundle.urls : bundle.urls[i].host = host

UrlOf(bundle, host) ==
    Head(SelectSeq(bundle.urls, LAMBDA it : it.host = host)).url

Outcome(result, files, urls, regions) ==
    [result |-> result, disk |-> files, urls |-> urls, regions |-> regions]

\* retrieval into file, extraction, removal of file, inside try/except that
\* returns False (zenodo, lines 150-164)
download_and_unzip_zenodo(bundle, files, fault) ==
    LET file == <<"tempfile.zip", 0>>
    IN  CASE fault = "retrieve" -> Outcome("false", files, bundle.urls, <<>>)
          [] fault = "extract"  -> Outcome("false", files \cup {file}, bundle.urls, <<>>)
          [] OTHER              -> Outcome("true", files \ {file}, bundle.urls, <<>>)

\* lines 190-237: a link without "/view" returns False; the download and the
\* extraction are not inside a try, and the archive is not removed
download_and_unzip_gdrive(bundle, files, fault) ==
    LET file == <<"tempfile.zip", 0>>
    IN  IF UrlOf(bundle, "gdrive") = "malformed"
        THEN Outcome("false", files, bundle.urls, <<>>)
        ELSE CASE fault = "retrieve" -> Outcome("raise", files \ {file}, bundle.urls, <<>>)
               [] fault = "extract"  -> Outcome("raise", files \cup {file}, bundle.urls, <<>>)
               [] OTHER              -> Outcome("true", files \cup {file}, bundle.urls, <<>>)

\* lines 265-306
download_and_unzip_protectedplanet(bundle, files, fault) ==
    LET file == <<"tempfile_wpda.zip", 0>>
    IN  CASE fault = "retrieve" -> Outcome("false", files \ {file}, bundle.urls, <<>>)
          [] fault = "extract"  -> Outcome("false", files \cup {file}, bundle.urls, <<>>)
          [] OTHER              -> Outcome("true", files \ {file}, bundle.urls, <<>>)

\* lines 333-358: the file is unzipped and removed when unzip is set
download_and_unzip_direct(bundle, files, fault) ==
    LET file == <<"direct", 0>>
    IN  CASE fault = "retrieve" -> Outcome("false", files \ {file}, bundle.urls, <<>>)
          [] ~Get(bundle, "unzip", FALSE) ->
                 Outcome("true", files \cup {file}, bundle.urls, <<>>)
          [] fault = "extract"  -> Outcome("false", files \cup {file}, bundle.urls, <<>>)
          [] OTHER              -> Outcome("true", files \ {file}, bundle.urls, <<>>)

\* the regions fetched by the first n iterations of the loop of lines
\* 404-431, the last of which failed or not
Fetched(suffix_list, n, failed) ==
    [k \in 1..n |-> [rg |-> suffix_list[k], ok |-> ~(failed /\ k = n)]]

\* faulty variant: a region that fails is skipped and the loop goes on
HydrobasinsFrom_KeepGoing(i, suffix_list, bundle, files, fault, fault_at) ==
    LET failing == fault # "none" /\ fault_at \in DOMAIN suffix_list
        archives == {<<"hybas", suffix_list[k]>> : k \in DOMAIN suffix_list}
    IN  Outcome(IF failing THEN "false" ELSE "true",
                (files \ archives)
                    \cup (IF failing /\ fault = "extract"
                          THEN {<<"hybas", suffix_list[fault_at]>>} ELSE {}),
                bundle.urls,
                [k \in DOMAIN suffix_list |->
                    [rg |-> suffix_list[k], ok |-> ~(failing /\ k = fault_at)]])

\* the regions of the loop of lines 404-431 from region i on; the fault
\* strikes at region fault_at
RECURSIVE HydrobasinsFrom(_, _, _, _, _, _)
HydrobasinsFrom(i, suffix_list, bundle, files, fault, fault_at) ==
    IF i > Len(suffix_list)
    THEN Outcome("true", files, bundle.urls, Fetched(suffix_list, i - 1, FALSE))
    ELSE LET file == <<"hybas", suffix_list[i]>>
         IN  IF fault_at = i /\ fault = "retrieve"
             THEN Outcome("false", files \ {file}, bundle.urls,
                          Fetched(suffix_list, i, TRUE))
             ELSE IF fault_at = i /\ fault = "extract"
             THEN Outcome("false", files \cup {file}, bundle.urls,
                          Fetched(suffix_list, i, TRUE))
             ELSE HydrobasinsFrom(i + 1, suffix_list, bundle, files \ {file},
                                  fault, fault_at)

\* lines 397-433; config["urls"]["suffixes"] raises KeyError when absent
download_and_unzip_hydrobasins(bundle, files, fault, fault_at) ==
    IF ~HasUrl(bundle, "suffixes")
    THEN Outcome("raise", files, bundle.urls, <<>>)
    ELSE HydrobasinsFrom(1, UrlOf(bundle, "suffixes"), bundle, files, fault, fault_at)

\* postdata.pop("url") of line 464 on the urls dict of the bundle
PopPostUrl(urls) ==
    [i \in DOMAIN urls |->
        IF urls[i].host = "post" THEN [urls[i] EXCEPT !.url = "popped"] ELSE urls[i]]

\* lines 459-494: nothing is inside a try; the "url" key is popped from the
\* post dict of the bundle
download_and_unzip_post(bundle, files, fault) ==
    LET file == <<"post", 0>>
        popped == PopPostUrl(bundle.urls)
    IN  CASE UrlOf(bundle, "post") = "popped" -> Outcome("raise", files, bundle.urls, <<>>)
          [] fault = "retrieve" -> Outcome("raise", files \ {file}, popped, <<>>)
          [] ~Get(bundle, "unzip", FALSE) ->
                 Outcome("true", files \cup {file}, popped, <<>>)
          [] fault = "extract"  -> Outcome("raise", files \cup {file}, popped, <<>>)
          [] OTHER              -> Outcome("true", files \ {file}, popped, <<>>)

\* globals()[f"download_and_unzip_{host}"](...) of lines 782-785: a key of
\* urls that names no download function (such as "suffixes") raises KeyError
download_and_unzip(host, bundle, files, fault, fault_at) ==
    CASE host = "zenodo"          -> download_and_unzip_zenodo(bundle, files, fault)
      [] host = "gdrive"          -> download_and_unzip_gdrive(bundle, files, fault)
      [] host = "protectedplanet" -> download_and_unzip_protectedplanet(bundle, files, fault)
      [] host = "direct"          -> download_and_unzip_direct(bundle, files, fault)
      [] host = "hydrobasins"     ->
             download_and_unzip_hydrobasins(bundle, files, fault, fault_at)
      [] host = "post"            -> download_and_unzip_post(bundle, files, fault)
      [] OTHER                    -> Outcome("raise", files, bundle.urls, <<>>)

\* --------------------------------------------------- the __main__ block
\* the name that line 796 looks for
bundle_hydrobasins == 1

\* faulty variant: no except clause around the call
TryExcept_Propagate(result) == result

\* try ... except Exception of lines 781-788: what the loop sees of a call
TryExcept(result) == IF result = "raise" THEN "false" ELSE result

\* faulty variant: no break after a successful download
HostLoopDone_NoBreak(downloaded, idx, host_list) == idx > Len(host_list)

\* the loop over the hosts ends at the break of lines 790-791 or when the
\* hosts are exhausted
HostLoopDone(downloaded, idx, host_list) == downloaded \/ idx > Len(host_list)

CurrentBundle == bundles_to_download[b_idx]

\* lines 772-775: the next bundle of the selection
BundleBegin ==
    /\ pc = "selected"
    /\ b_idx <= Len(bundles_to_download)
    /\ downloaded_bundle' = FALSE
    /\ host_idx' = 1
    /\ pc' = "hosts"
    /\ UNCHANGED selvars_but_pc
    /\ UNCHANGED <<b_idx, attempts, disk, log_error, merge_calls, log_loaded>>
    /\ UNCHANGED loadvars

\* lines 778-788: one iteration of the loop over the hosts
HostAttempt ==
    /\ pc = "hosts"
    /\ ~HostLoopDone(downloaded_bundle, host_idx, config_bundles[CurrentBundle].urls)
    /\ \E fault \in Faults, fault_at \in 1..MaxSuffixes :
         LET bundle == config_bundles[CurrentBundle]
             host == bundle.urls[host_idx].host
             out == download_and_unzip(host, bundle, disk, fault, fault_at)
             seen == TryExcept(out.result)
         IN  /\ attempts' = Append(attempts,
                                   [bundle |-> CurrentBundle, idx |-> host_idx,
                                    host |-> host, raised |-> out.result = "raise",
                                    result |-> seen, regions |-> out.regions])
             /\ disk' = out.disk
             /\ config_bundles' =
                    [config_bundles EXCEPT ![CurrentBundle] =
                        Put(config_bundles[CurrentBundle], "urls", out.urls)]
             /\ downloaded_bundle' = (downloaded_bundle \/ seen = "true")
             /\ pc' = IF seen = "raise" THEN "crashed" ELSE pc
    /\ host_idx' = host_idx + 1
    /\ UNCHANGED <<bundle_keys, countries, tutorial, config_enable, categories,
                   cat_idx, dict_sort, sort_idx, remaining_countries,
                   returned_bundles, bundles_to_download>>
    /\ UNCHANGED <<b_idx, log_error, merge_calls, log_loaded>>
    /\ UNCHANGED loadvars

\* faulty variant: the loop over the bundles ends at the first bundle that cannot
\* be downloaded
BundleEnd_FailFast ==
    /\ pc = "hosts"
    /\ HostLoopDone(downloaded_bundle, host_idx, config_bundles[CurrentBundle].urls)
    /\ log_error' = IF downloaded_bundle THEN log_error
                    ELSE Append(log_error, CurrentBundle)
    /\ b_idx' = IF downloaded_bundle THEN b_idx + 1
                ELSE Len(bundles_to_download) + 1
    /\ pc' = "selected"
    /\ UNCHANGED selvars_but_pc
    /\ UNCHANGED <<host_idx, downloaded_bundle, attempts, disk, merge_calls,
                   log_loaded>>
    /\ UNCHANGED loadvars

\* lines 790-794: the end of the loop over the hosts
BundleEnd ==
    /\ pc = "hosts"
    /\ HostLoopDone(downloaded_bundle, host_idx, config_bundles[CurrentBundle].urls)
    /\ log_error' = IF downloaded_bundle THEN log_error
                    ELSE Append(log_error, CurrentBundle)
    /\ b_idx' = b_idx + 1
    /\ pc' = "selected"
    /\ UNCHANGED selvars_but_pc
    /\ UNCHANGED <<host_idx, downloaded_bundle, attempts, disk, merge_calls,
                   log_loaded>>
    /\ UNCHANGED loadvars

\* faulty variant: the merge is called as soon as the selection is known, the
\* bundles not yet downloaded being skipped
MergeHydrobasins_Early ==
    /\ pc = "selected"
    /\ bundle_hydrobasins \in Range(bundles_to_download)
    /\ merge_calls' = merge_calls + 1
    /\ \E ok \in BOOLEAN : pc' = IF ok THEN "report" ELSE "crashed"
    /\ UNCHANGED selvars_but_pc
    /\ UNCHANGED <<b_idx, host_idx, downloaded_bundle, attempts, disk,
                   log_error, log_loaded>>
    /\ UNCHANGED loadvars

\* lines 796-798: merge_hydrobasins_shape is called outside any try; it
\* raises, for one, when no regional file is there to concatenate
MergeHydrobasins ==
    /\ pc = "selected"
    /\ b_idx > Len(bundles_to_download)
    /\ bundle_hydrobasins \in Range(bundles_to_download)
    /\ merge_calls' = merge_calls + 1
    /\ \E ok \in BOOLEAN : pc' = IF ok THEN "report" ELSE "crashed"
    /\ UNCHANGED selvars_but_pc
    /\ UNCHANGED <<b_idx, host_idx, downloaded_bundle, attempts, disk,
                   log_error, log_loaded>>
    /\ UNCHANGED loadvars

\* line 796, the condition being false
NoMerge ==
    /\ pc = "selected"
    /\ b_idx > Len(bundles_to_download)
    /\ bundle_hydrobasins \notin Range(bundles_to_download)
    /\ pc' = "report"
    /\ UNCHANGED selvars_but_pc
    /\ UNCHANGED mainvars
    /\ UNCHANGED loadvars

\* lines 800-803: the final message
FinalReport ==
    /\ pc = "report"
    /\ log_loaded' = bundles_to_download
    /\ pc' = "done"
    /\ UNCHANGED selvars_but_pc
    /\ UNCHANGED <<b_idx, host_idx, downloaded_bundle, attempts, disk,
                   log_error, merge_calls>>
    /\ UNCHANGED loadvars

\* the catalogs of the runs of __main__: every bundle covers every country,
\* the categories alternate, and the urls differ
UrlChoices ==
    { [urls |-> <<Url("protectedplanet")>>, unzip |-> FALSE],
      [urls |-> <<Url("zenodo"), [host |-> "gdrive", url |-> "malformed"]>>,
       unzip |-> FALSE],
      [urls |-> <<Url("gdrive"), Url("direct")>>, unzip |-> TRUE],
      [urls |-> <<Url("post"), Url("zenodo")>>, unzip |-> TRUE],
      [urls |-> <<Url("hydrobasins"),
                  [host |-> "suffixes",
                   url |-> [i \in 1..MaxSuffixes |-> MaxSuffixes + 1 - i]],
                  Url("zenodo")>>,
       unzip |-> FALSE],
      [urls |-> <<[host |-> "suffixes", url |-> [i \in 1..MaxSuffixes |-> i]],
                  Url("hydrobasins")>>,
       unzip |-> FALSE] }

MainBundle(b, u) ==
    Put(Bundle(Countries, IF b % 2 = 1 THEN "common" ELSE "data", u.urls),
        "unzip", u.unzip)

MainCatalogs ==
    {[b \in Names |-> MainBundle(b, choice[b])] : choice \in [Names -> UrlChoices]}

InitMain ==
    /\ config_bundles \in MainCatalogs
    /\ bundle_keys \in KeyOrders
    /\ countries = Countries
    /\ tutorial = FALSE
    /\ config_enable = <<>>
    /\ InitSelection

NextMain ==
    \/ Next
    \/ BundleBegin
    \/ HostAttempt
    \/ BundleEnd
    \/ MergeHydrobasins
    \/ NoMerge
    \/ FinalReport

\* the __main__ block: the catalog is loaded, the bundles are selected and
\* downloaded, the final message is logged
SpecMain == InitMain /\ [][NextMain]_vars

\* ============================================================ the claims
\* the requested countries that the bundles of S supply
Covered(S) == countries \cap UNION {config_bundles[b].countries : b \in S}

\* the loop over the candidates of the current category has ended
PassDone == pc = "candidates" /\ sort_idx > Len(dict_sort)

\* the candidates of the current category
CandidateSet ==
    {b \in Names : IsCandidate(b, categories[cat_idx], config_bundles,
                               tutorial, config_enable)}

C2_CandidatesCovered ==
    PassDone => Covered(CandidateSet) \subseteq Covered(Range(returned_bundles))

\* a candidate was skipped and a later candidate was selected
C2_Witness ==
    /\ PassDone
    /\ \E i, j \in DOMAIN dict_sort :
           /\ i < j
           /\ dict_sort[i] \notin Range(returned_bundles)
           /\ dict_sort[j] \in Range(returned_bundles)

\* C3: no selected bundle has a tutorial flag (false when absent) other than
\* the requested one.
C3_TutorialMatches ==
    \A b \in Range(bundles_to_download) \cup Range(returned_bundles) :
        Get(config_bundles[b], "tutorial", FALSE) = tutorial

\* a selection was returned from a catalog that has a bundle of the other
\* tutorial flag matching requested countries
C3_Witness ==
    /\ pc = "selected"
    /\ bundles_to_download # <<>>
    /\ \E b \in Names :
           /\ Get(config_bundles[b], "tutorial", FALSE) # tutorial
           /\ Covered({b}) # {}
           /\ check_disabled_by_opt(config_bundles[b], config_enable) # <<"all">>

\* the bundle maps an option that is active to the list ["all"]
DisabledByActiveAll(b) ==
    /\ "disable_by_opt" \in DOMAIN config_bundles[b]
    /\ \E i \in DOMAIN config_bundles[b].disable_by_opt :
           LET it == config_bundles[b].disable_by_opt[i]
           IN  /\ it.outs = ListOf(<<"all">>)
               /\ Get(config_enable, it.opt, FALSE)

\* C4: a bundle whose disable_by_opt maps an active option to ["all"] is
\* never selected.
C4_DisabledNeverSelected ==
    \A b \in Range(bundles_to_download) \cup Range(returned_bundles) :
        ~DisabledByActiveAll(b)

\* a selection was returned although a disabled bundle of the requested
\* tutorial flag matches requested countries, another option being active too
C4_Witness ==
    /\ pc = "selected"
    /\ bundles_to_download # <<>>
    /\ \E b \in Names :
           /\ DisabledByActiveAll(b)
           /\ Len(config_bundles[b].disable_by_opt) = 2
           /\ Get(config_enable, "build_natura_raster", FALSE)
           /\ Get(config_bundles[b], "tutorial", FALSE) = tutorial
           /\ Covered({b}) # {}

\* C9 (as stated): the list that get_best_bundles returns is the same for
\* every iteration order of the set of categories.
C9_OrderIndependent ==
    pc = "selected" =>
        \A cats \in Orderings(CategorySet(config_bundles)) :
            BundlesForOrder(cats, countries, config_bundles, bundle_keys,
                            tutorial, config_enable) = bundles_to_download

NMatched(b) == config_bundles[b].n_matched

AttemptsOf(b) == SelectSeq(attempts, LAMBDA a : a.bundle = b)

\* the bundles whose loop over the hosts has ended
BundlesEnded == {bundles_to_download[i] : i \in 1..(b_idx - 1)}

\* C5: the sources of a selected bundle are attempted one at a time in the
\* order of the bundle's urls, and none is attempted after one succeeded.
C5_DeclaredOrderStopAtSuccess ==
    \A b \in Names :
        LET mine == AttemptsOf(b)
        IN  \A k \in DOMAIN mine :
                /\ mine[k].idx = k
                /\ mine[k].host = config_bundles[b].urls[k].host
                /\ \A j \in 1..(k - 1) : mine[j].result # "true"

\* a bundle with two sources whose first source succeeded has ended
C5_Witness ==
    \E b \in BundlesEnded :
        /\ Len(config_bundles[b].urls) = 2
        /\ Len(AttemptsOf(b)) = 1
        /\ AttemptsOf(b)[1].result = "true"

\* C6: a fault raised by a source attempt (caught inside the download
\* function, or raised to the loop by it or by the lookup of the function) is
\* caught: the run goes on, the attempt counts as failed, the next source of
\* the bundle is attempted, and the bundle is downloaded when that source
\* succeeds.
C6_FaultCaughtNextSourceTried ==
    /\ pc = "crashed" => merge_calls > 0
    /\ \A k \in DOMAIN attempts :
           (attempts[k].raised \/ attempts[k].result = "false") =>
               LET b == attempts[k].bundle
                   more == attempts[k].idx < Len(config_bundles[b].urls)
                   \* the loop over the hosts of b is still running
                   running == pc = "hosts" /\ b = CurrentBundle
               IN  /\ attempts[k].result = "false"
                   /\ (k = Len(attempts) /\ running) =>
                          (~downloaded_bundle /\ host_idx = attempts[k].idx + 1)
                   /\ (more /\ ~(k = Len(attempts) /\ running)) =>
                          /\ k < Len(attempts)
                          /\ attempts[k + 1].bundle = b
                          /\ attempts[k + 1].idx = attempts[k].idx + 1
                          /\ attempts[k + 1].result = "true" =>
                                 /\ b \notin Range(log_error)
                                 /\ (k + 1 = Len(attempts) /\ running)
                                        => downloaded_bundle

\* the kinds of fault that occur: the function of a host cannot be resolved,
\* and a download function raises; each followed by a source that succeeds
C6_Witness ==
    /\ pc = "done"
    /\ \E k, m \in 1..(Len(attempts) - 1) :
           /\ attempts[k].raised /\ attempts[k].host = "suffixes"
           /\ attempts[k + 1].result = "true"
           /\ attempts[m].raised /\ attempts[m].host \in {"gdrive", "post"}
           /\ attempts[m + 1].result = "true"

\* every attempt made for bundle b failed
AllFailed(b) == \A k \in DOMAIN attempts :
                    attempts[k].bundle = b => attempts[k].result # "true"

\* C7: a bundle whose sources all fail is marked failed and the loop goes
\* on: every bundle of the selection has its first source attempted.
C7_NoFailFast ==
    /\ pc \in {"report", "done", "crashed"} => b_idx = Len(bundles_to_download) + 1
    /\ \A b \in BundlesEnded :
           /\ \E k \in DOMAIN attempts : attempts[k].bundle = b /\ attempts[k].idx = 1
           /\ AllFailed(b) => b \in Range(log_error)

\* the first bundle of the selection failed and the second was attempted
C7_Witness ==
    /\ pc = "done"
    /\ Len(bundles_to_download) = 2
    /\ bundles_to_download[1] \in Range(log_error)
    /\ AttemptsOf(bundles_to_download[2]) # <<>>

\* C8 (as stated): a bundle whose sources all failed is reported as failed
\* and is not among the bundles that the final message reports as loaded.
C8_FailedNotReportedLoaded ==
    pc = "done" =>
        \A b \in Range(bundles_to_download) :
            AllFailed(b) => /\ b \in Range(log_error)
                            /\ b \notin Range(log_loaded)

\* ------------------------------------------------ the order of a category
\* C11 (as stated): within a category the bundles that match more of the
\* requested countries are selected first: the candidates are examined, and
\* the selected bundles listed, in descending order of n_matched.
C11_MostMatchedFirst ==
    pc = "candidates" =>
        /\ \A i, j \in DOMAIN dict_sort :
               i < j => NMatched(dict_sort[i]) >= NMatched(dict_sort[j])
        /\ \A i, j \in DOMAIN returned_bundles :
               i < j => NMatched(returned_bundles[i]) >= NMatched(returned_bundles[j])

\* C12 (as stated): two candidates of a category with the same n_matched
\* are ordered by bundle name, whatever the order in which the catalog lists
\* them.
C12_TiesByName ==
    pc = "candidates" =>
        \A i, j \in DOMAIN dict_sort :
            (i < j /\ NMatched(dict_sort[i]) = NMatched(dict_sort[j]))
                => dict_sort[i] < dict_sort[j]

\* the position of bundle b among the keys of the catalog
KeyPos(b) == CHOOSE k \in DOMAIN bundle_keys : bundle_keys[k] = b

\* C12 (amended): two candidates of a category with the same n_matched are
\* ordered as the catalog lists them.
C12_TiesInCatalogOrder ==
    pc = "candidates" =>
        \A i, j \in DOMAIN dict_sort :
            (i < j /\ NMatched(dict_sort[i]) = NMatched(dict_sort[j]))
                => KeyPos(dict_sort[i]) < KeyPos(dict_sort[j])

\* two candidates tie and the catalog lists the greater name first
C12_Witness ==
    /\ pc = "candidates"
    /\ \E i, j \in DOMAIN dict_sort :
           /\ i < j
           /\ NMatched(dict_sort[i]) = NMatched(dict_sort[j])
           /\ NMatched(dict_sort[i]) > 0
           /\ dict_sort[i] > dict_sort[j]

\* ------------------------------------------------ the load of the catalog
\* C13 (as stated): load_databundle_config fails, without processing any
\* bundle, when its argument is neither a mapping nor a file path: it never
\* returns to its caller.
C13_LoadFailsOnBadInput ==
    config_type \notin {"dict", "str"} => pc \in {"load", "load_loop", "crashed"}

\* ------------------------------------------------ the archives on disk
\* the archive files that a successful attempt of host for bundle b
\* downloads and extracts
ArchivesOf(host, b) ==
    CASE host \in {"zenodo", "gdrive"} -> {<<"tempfile.zip", 0>>}
      [] host = "protectedplanet"      -> {<<"tempfile_wpda.zip", 0>>}
      [] host \in {"direct", "post"}   ->
             IF Get(config_bundles[b], "unzip", FALSE) THEN {<<host, 0>>} ELSE {}
      [] host = "hydrobasins"          ->
             {<<"hybas", rg>> : rg \in Range(UrlOf(config_bundles[b], "suffixes"))}
      [] OTHER                         -> {}

\* C14 (as stated): after a source attempt that downloaded an archive and
\* extracted it successfully, the archive is no longer on disk.
C14_ArchiveRemoved ==
    attempts # <<>> =>
        LET last == attempts[Len(attempts)]
        IN  last.result = "true" => ArchivesOf(last.host, last.bundle) \cap disk = {}

\* ------------------------------------------------ the bundle records
\* C15 (as stated): once the catalog is loaded, no step of the selection or
\* of the retrieval changes a field of a bundle other than matched_countries
\* and n_matched; a source attempt leaves the urls of the bundle as they
\* were.
C15_BundleFieldsFrozen ==
    [][pc \notin {"load", "load_loop"} =>
          \A b \in DOMAIN config_bundles :
              \A key \in DOMAIN config_bundles[b] \ {"matched_countries", "n_matched"} :
                  /\ b \in DOMAIN config_bundles'
                  /\ key \in DOMAIN config_bundles'[b]
                  /\ config_bundles'[b][key] = config_bundles[b][key]]_vars

\* ------------------------------------------------ the end of the run
\* C16 (as stated): once the catalog is loaded, no failure of a download,
\* that of the bundle that triggers the merge of the hydrobasins shapes
\* included, ends the run with a fault.
C16_NoFaultHaltsRun == pc # "crashed"

\* ------------------------------------------------ the result of the selection
\* C17: when no country is requested, get_best_bundles returns the empty
\* list: no bundle is selected for any category.
C17_EmptyRequestEmptyResult ==
    countries = {} => (bundles_to_download = <<>> /\ returned_bundles = <<>>)

\* get_best_bundles returned for an empty request, tutorial being requested,
\* an option being active and a category having had a candidate to examine
C17_Witness ==
    /\ pc = "selected"
    /\ countries = {}
    /\ tutorial
    /\ Get(config_enable, "build_cutout", FALSE)
    /\ \E b \in Names, cat \in Categories :
           IsCandidate(b, cat, config_bundles, tutorial, config_enable)

\* bundle b is the only bundle of its category that has the requested
\* tutorial flag and is not completely disabled
OnlyCandidate(b) ==
    \A c \in Names :
        (/\ config_bundles[c].category = config_bundles[b].category
         /\ Get(config_bundles[c], "tutorial", FALSE) = tutorial
         /\ check_disabled_by_opt(config_bundles[c], config_enable) # <<"all">>)
            <=> c = b

\* C18: a bundle that is the only candidate of its category and supplies a
\* requested country is in the result of get_best_bundles.
C18_OnlyCandidateSelected ==
    pc = "selected" =>
        \A b \in Names :
            (OnlyCandidate(b) /\ config_bundles[b].countries \cap countries # {})
                => b \in Range(bundles_to_download)

\* the only candidate of a category supplies some of the requested
\* countries, not all, and was selected; another bundle of the category is
\* out for its tutorial flag or for being disabled
C18_Witness ==
    /\ pc = "selected"
    /\ \E b \in Names :
           /\ OnlyCandidate(b)
           /\ b \in Range(bundles_to_download)
           /\ ~(countries \subseteq config_bundles[b].countries)
           /\ \E c \in Names \ {b} :
                  config_bundles[c].category = config_bundles[b].category

\* ------------------------------------------------ the annotation
\* the annotation of get_best_bundles has been applied to the catalog
Annotated == pc \in {"categories", "candidates", "selected"}

\* C19: the annotation is idempotent: applied again to the annotated
\* catalog with the same requested countries it changes nothing, and the
\* n_matched of every bundle is the number of countries that the bundle and
\* the request have in common.
C19_AnnotationIdempotent ==
    Annotated =>
        /\ Annotate(config_bundles, countries) = config_bundles
        /\ \A b \in DOMAIN config_bundles :
               /\ config_bundles[b].n_matched =
                      Cardinality(config_bundles[b].countries \cap countries)
               /\ config_bundles[b].matched_countries =
                      config_bundles[b].countries \cap countries

\* an annotated catalog with a bundle that supplies two countries and
\* matches one of them, and a bundle that matches none
C19_Witness ==
    /\ Annotated
    /\ \E b, c \in DOMAIN config_bundles :
           /\ Cardinality(config_bundles[b].countries) = 2
           /\ config_bundles[b].n_matched = 1
           /\ config_bundles[c].n_matched = 0
           /\ countries # {}

\* ------------------------------------------------ the hydrobasins source
\* C20: an attempt of the hydrobasins source fetches the regions of the
\* declared suffixes one by one in their order; it stops at the first region
\* that fails and returns failure; it succeeds only when every region
\* succeeded; the sources that follow in the urls of the bundle are tried
\* after a failure.
C20_HydrobasinsRegions ==
    \A k \in DOMAIN attempts :
        (attempts[k].host = "hydrobasins" /\ ~attempts[k].raised) =>
            LET b == attempts[k].bundle
                suffix_list == UrlOf(config_bundles[b], "suffixes")
                rs == attempts[k].regions
                more == attempts[k].idx < Len(config_bundles[b].urls)
                running == pc = "hosts" /\ b = CurrentBundle
            IN  /\ Len(rs) <= Len(suffix_list)
                /\ \A i \in DOMAIN rs :
                       /\ rs[i].rg = suffix_list[i]
                       /\ ~rs[i].ok => (i = Len(rs) /\ attempts[k].result = "false")
                /\ attempts[k].result = "true" <=>
                       (Len(rs) = Len(suffix_list) /\ \A i \in DOMAIN rs : rs[i].ok)
                /\ (attempts[k].result = "false" /\ more
                        /\ ~(k = Len(attempts) /\ running)) =>
                       /\ k < Len(attempts)
                       /\ attempts[k + 1].bundle = b
                       /\ attempts[k + 1].idx = attempts[k].idx + 1

\* the first region of a hydrobasins source failed, the second was not
\* fetched, and a later source of the bundle was tried and succeeded; for
\* another bundle every region was fetched, in the order of the suffixes,
\* and the attempt succeeded
C20_Witness ==
    /\ \E k, m \in DOMAIN attempts :
           /\ attempts[k].host = "hydrobasins"
           /\ Len(attempts[k].regions) = 1
           /\ ~attempts[k].regions[1].ok
           /\ m > k
           /\ attempts[m].bundle = attempts[k].bundle
           /\ attempts[m].host = "zenodo"
           /\ attempts[m].result = "true"
    /\ \E k \in DOMAIN attempts :
           /\ attempts[k].host = "hydrobasins"
           /\ attempts[k].result = "true"
           /\ Len(attempts[k].regions) = MaxSuffixes
           /\ attempts[k].regions[1].rg = MaxSuffixes

\* ------------------------------------------------ the sentinel "all"
\* the bundle maps an option that is active to the plain string "all"
DisabledByActiveBareAll(b) ==
    /\ "disable_by_opt" \in DOMAIN config_bundles[b]
    /\ \E i \in DOMAIN config_bundles[b].disable_by_opt :
           LET it == config_bundles[b].disable_by_opt[i]
           IN  /\ it.outs = StrAll
               /\ Get(config_enable, it.opt, FALSE)

\* C21 (as stated): a bundle whose disable_by_opt maps an active option to
\* the string "all" itself, not to a list that holds it, is never selected.
C21_BareAllNeverSelected ==
    \A b \in Range(bundles_to_download) \cup Range(returned_bundles) :
        ~DisabledByActiveBareAll(b)

\* ------------------------------------------------ the merge post-step
\* C22: merge_hydrobasins_shape is called when, and only when,
\* bundle_hydrobasins is in the selection; it is called at most once, and
\* only after the loop over the hosts of every selected bundle has ended.
C22_MergeIffSelectedOnceAfterLoop ==
    /\ merge_calls <= 1
    /\ merge_calls = 1 =>
           /\ bundle_hydrobasins \in Range(bundles_to_download)
           /\ pc \in {"report", "done", "crashed"}
           /\ BundlesEnded = Range(bundles_to_download)
           /\ \A b \in Range(bundles_to_download) : AttemptsOf(b) # <<>>
    /\ pc \in {"report", "done"} =>
           (merge_calls = 1 <=> bundle_hydrobasins \in Range(bundles_to_download))

\* the run ended after a merge that followed the attempts of two selected
\* bundles, bundle_hydrobasins being the second of them
C22_Witness ==
    /\ pc = "done"
    /\ merge_calls = 1
    /\ Len(bundles_to_download) = 2
    /\ bundles_to_download[2] = bundle_hydrobasins
    /\ AttemptsOf(bundles_to_download[1]) # <<>>

\* ------------------------------------------------ the remaining countries
\* the countries of the bundles selected so far in the category
SelectedCountries ==
    UNION {config_bundles[returned_bundles[i]].countries : i \in DOMAIN returned_bundles}

\* C23: in the pass of a category, remaining_countries is the request when
\* the pass begins and, after every candidate, the request minus the
\* countries of the bundles selected so far; it never grows; a candidate is
\* appended exactly when it supplies a country that still remains, so every
\* selected bundle supplies a requested country.
C23_RemainingInvariant ==
    /\ [](pc = "candidates" =>
            /\ remaining_countries = countries \ SelectedCountries
            /\ sort_idx = 1 => (remaining_countries = countries /\ returned_bundles = <<>>)
            /\ \A i \in DOMAIN returned_bundles :
                   config_bundles[returned_bundles[i]].countries \cap countries # {})
    /\ [][(pc = "candidates" /\ pc' = "candidates") =>
            LET bname == dict_sort[sort_idx]
                hit == config_bundles[bname].countries \cap remaining_countries # {}
            IN  /\ remaining_countries' \subseteq remaining_countries
                /\ returned_bundles' =
                       IF hit THEN Append(returned_bundles, bname)
                       ELSE returned_bundles]_vars

\* a pass in which a candidate was appended and removed some of the
\* remaining countries, and a later candidate was not appended
C23_Witness ==
    /\ pc = "candidates"
    /\ sort_idx = 3
    /\ Len(returned_bundles) = 1
    /\ returned_bundles[1] = dict_sort[1]
    /\ remaining_countries # {}
    /\ remaining_countries # countries

\* ------------------------------------------------ the concatenation
\* the catalog without the bundles of the categories other than category
OnlyCategory(category) ==
    [b \in {c \in DOMAIN config_bundles : config_bundles[c].category = category}
        |-> config_bundles[b]]

\* C24: the list that get_best_bundles returns holds no bundle twice, and it
\* is the concatenation, in the order of the categories, of the selection of
\* every category, each made from the full request and being the one made
\* from the catalog without the bundles of the other categories.
C24_ConcatenationNoDuplicates ==
    pc = "selected" =>
        /\ \A i, j \in DOMAIN bundles_to_download :
               i # j => bundles_to_download[i] # bundles_to_download[j]
        /\ bundles_to_download =
               Flatten([k \in DOMAIN categories |->
                   get_best_bundles_by_category(countries, categories[k],
                       OnlyCategory(categories[k]),
                       SelectSeq(bundle_keys,
                                 LAMBDA b : config_bundles[b].category = categories[k]),
                       tutorial, config_enable)])

\* bundles of two categories were selected for the same requested country
C24_Witness ==
    /\ pc = "selected"
    /\ \E i, j \in DOMAIN bundles_to_download :
           /\ i < j
           /\ config_bundles[bundles_to_download[i]].category
                  # config_bundles[bundles_to_download[j]].category
           /\ Covered({bundles_to_download[i]})
                  \cap Covered({bundles_to_download[j]}) # {}

\* ------------------------------------------------ the bundles not disabled
\* the bundle maps an option that is active to a list that holds "all"
ActiveListHoldsAll(b) ==
    /\ "disable_by_opt" \in DOMAIN config_bundles[b]
    /\ \E i \in DOMAIN config_bundles[b].disable_by_opt :
           LET it == config_bundles[b].disable_by_opt[i]
           IN  /\ it.outs.kind = "list"
               /\ "all" \in Range(it.outs.items)
               /\ Get(config_enable, it.opt, FALSE)

\* C25: _check_disabled_by_opt does not report as completely disabled a
\* bundle without disable_by_opt, nor a bundle whose "all" entries belong to
\* options that are absent from the enable configuration or false in it;
\* such a bundle of the requested tutorial flag is among the candidates of
\* its category.
C25_NotDisabledStaysCandidate ==
    pc = "candidates" =>
        \A b \in DOMAIN config_bundles :
            ~ActiveListHoldsAll(b) =>
                /\ check_disabled_by_opt(config_bundles[b], config_enable) # <<"all">>
                /\ (/\ config_bundles[b].category = categories[cat_idx]
                    /\ Get(config_bundles[b], "tutorial", FALSE) = tutorial)
                       => b \in Range(dict_sort)

\* the candidates of a category hold a bundle whose "all" belongs to an
\* option that is false while another of its options is active, and the
\* catalog has a bundle without disable_by_opt
C25_Witness ==
    /\ pc = "candidates"
    /\ \E b \in Range(dict_sort) :
           /\ "disable_by_opt" \in DOMAIN config_bundles[b]
           /\ \E i, j \in DOMAIN config_bundles[b].disable_by_opt :
                  LET off == config_bundles[b].disable_by_opt[i]
                      on == config_bundles[b].disable_by_opt[j]
                  IN  /\ off.outs = ListOf(<<"all">>)
                      /\ off.opt \in DOMAIN config_enable
                      /\ ~config_enable[off.opt]
                      /\ Get(config_enable, on.opt, FALSE)
    /\ \E c \in DOMAIN config_bundles : "disable_by_opt" \notin DOMAIN config_bundles[c]

====
